---- MODULE Spec2Model ----
(***************************************************************************)
(* MediChat RAG: the retrieval-and-answering decision pipeline.            *)
(*                                                                         *)
(* The model covers RAGChain (src/src/rag_chain.py): the query classifier  *)
(* predicates, create_vector_store, retrieve_context and answer_question;  *)
(* the Streamlit front end (src/app.py): process_documents and             *)
(* handle_user_query; and the ChatManager message store                    *)
(* (src/src/chat_manager.py).                                              *)
(*                                                                         *)
(* Text is modelled at character level: a Python str is a sequence of      *)
(* one-character strings, so that lower(), strip(), split(), startswith()  *)
(* and the substring test `in` are computed the way Python computes them.  *)
(* Texts that the program only passes around (language-model output, the   *)
(* canned messages, chunk contents, file names) are opaque TLA+ strings.   *)
(*                                                                         *)
(* External collaborators are nondeterministic: the language model returns *)
(* any response or fails; the FAISS retriever returns any ranking of at    *)
(* most k distinct chunks of the index or fails; embedding a corpus may    *)
(* fail; PDF extraction may fail.                                          *)
(***************************************************************************)
EXTENDS Integers, Sequences, FiniteSets, TLC

(***************************************************************************)
(* Python str operations                                                   *)
(***************************************************************************)

UpperLetters ==
    <<"A","B","C","D","E","F","G","H","I","J","K","L","M",
      "N","O","P","Q","R","S","T","U","V","W","X","Y","Z">>

LowerLetters ==
    <<"a","b","c","d","e","f","g","h","i","j","k","l","m",
      "n","o","p","q","r","s","t","u","v","w","x","y","z">>

UpperSet == {UpperLetters[i] : i \in 1..Len(UpperLetters)}
LowerSet == {LowerLetters[i] : i \in 1..Len(LowerLetters)}

\* str.lower() on one character
LowerChar(c) ==
    IF c \in UpperSet
    THEN LowerLetters[CHOOSE i \in 1..Len(UpperLetters) : UpperLetters[i] = c]
    ELSE c

\* str.upper() on one character (used only to write inputs in capitals)
UpperChar(c) ==
    IF c \in LowerSet
    THEN UpperLetters[CHOOSE i \in 1..Len(LowerLetters) : LowerLetters[i] = c]
    ELSE c

\* str.lower()
Lower(s) == [i \in 1..Len(s) |-> LowerChar(s[i])]

\* the whitespace characters of the inputs
IsSpace(c) == c = " "

SetMin(S) == CHOOSE x \in S : \A y \in S : x <= y
SetMax(S) == CHOOSE x \in S : \A y \in S : x >= y

\* str.strip(): drop leading and trailing whitespace
Strip(s) ==
    LET solid == {i \in 1..Len(s) : ~IsSpace(s[i])}
    IN  IF solid = {} THEN <<>> ELSE SubSeq(s, SetMin(solid), SetMax(solid))

\* the positions where a word of s starts: str.split() splits at whitespace runs
WordStarts(s) ==
    {i \in 1..Len(s) : ~IsSpace(s[i]) /\ (i = 1 \/ IsSpace(s[i-1]))}

\* len(s.split())
WordCount(s) == Cardinality(WordStarts(s))

\* s.startswith(p)
StartsWith(s, p) == Len(p) <= Len(s) /\ \A j \in 1..Len(p) : s[j] = p[j]

\* p in s (substring test)
Contains(s, p) ==
    \E i \in 0..(Len(s) - Len(p)) : \A j \in 1..Len(p) : s[i + j] = p[j]

\* s[n:]
DropPrefix(s, n) == SubSeq(s, n + 1, Len(s))

(***************************************************************************)
(* The query classifier predicates of RAGChain                             *)
(***************************************************************************)

\* _is_greeting: the fixed greeting-phrase set (rag_chain.py:294-298)
greetings ==
    { <<"h","i">>,   \* hi
      <<"h","e","l","l","o">>,   \* hello
      <<"h","e","y">>,   \* hey
      <<"g","r","e","e","t","i","n","g","s">>,   \* greetings
      <<"g","o","o","d"," ","m","o","r","n","i","n","g">>,   \* good morning
      <<"g","o","o","d"," ","a","f","t","e","r","n","o","o","n">>,   \* good afternoon
      <<"g","o","o","d"," ","e","v","e","n","i","n","g">>,   \* good evening
      <<"h","o","w","d","y">>,   \* howdy
      <<"s","u","p">>,   \* sup
      <<"w","h","a","t","'","s"," ","u","p">>,   \* what's up
      <<"h","o","w"," ","a","r","e"," ","y","o","u">>,   \* how are you
      <<"h","o","w","'","s"," ","i","t"," ","g","o","i","n","g">> }   \* how's it going

\* _is_farewell: the fixed farewell-phrase set (rag_chain.py:317-321)
farewells ==
    { <<"b","y","e">>,   \* bye
      <<"g","o","o","d","b","y","e">>,   \* goodbye
      <<"s","e","e"," ","y","o","u">>,   \* see you
      <<"t","a","k","e"," ","c","a","r","e">>,   \* take care
      <<"f","a","r","e","w","e","l","l">>,   \* farewell
      <<"a","d","i","o","s">>,   \* adios
      <<"c","y","a">>,   \* cya
      <<"s","e","e"," ","y","a">>,   \* see ya
      <<"c","h","e","e","r","i","o">>,   \* cheerio
      <<"g","o","t","t","a"," ","g","o">>,   \* gotta go
      <<"h","a","v","e"," ","t","o"," ","g","o">>,   \* have to go
      <<"t","a","l","k"," ","l","a","t","e","r">>,   \* talk later
      <<"t","t","y","l">> }   \* ttyl

\* _is_unclear_query: the vague-response set (rag_chain.py:328)
unclear_keywords ==
    { <<"n","o","t","h","i","n","g">>,   \* nothing
      <<"n","o","p","e">>,   \* nope
      <<"n","a","h">>,   \* nah
      <<"w","h","a","t","e","v","e","r">>,   \* whatever
      <<"d","u","n","n","o">>,   \* dunno
      <<"i","d","k">> }   \* idk

\* _is_document_question: the document keywords (rag_chain.py:335-339)
document_keywords ==
    { <<"d","o","c","u","m","e","n","t">>,   \* document
      <<"d","o","c","u","m","e","n","t","s">>,   \* documents
      <<"f","i","l","e">>,   \* file
      <<"p","d","f">>,   \* pdf
      <<"m","e","n","t","i","o","n">>,   \* mention
      <<"m","e","n","t","i","o","n","e","d">>,   \* mentioned
      <<"i","n"," ","t","h","e"," ","d","o","c","u","m","e","n","t">>,   \* in the document
      <<"f","r","o","m"," ","t","h","e"," ","d","o","c","u","m","e","n","t">>,   \* from the document
      <<"u","p","l","o","a","d","e","d">>,   \* uploaded
      <<"y","o","u","r"," ","d","o","c","u","m","e","n","t">>,   \* your document
      <<"m","y"," ","d","o","c","u","m","e","n","t">>,   \* my document
      <<"a","b","o","u","t"," ","t","h","e"," ","f","i","l","e">>,   \* about the file
      <<"d","o","e","s"," ","t","h","e"," ","d","o","c","u","m","e","n","t">> }   \* does the document


\* Variant: up to three further words still make a greeting
IsGreeting_ThreeWords(query) ==
    LET query_lower == Strip(Lower(query))
    IN  \/ query_lower \in greetings
        \/ \E greeting \in greetings :
              /\ StartsWith(query_lower, greeting)
              /\ LET remaining == Strip(DropPrefix(query_lower, Len(greeting)))
                 IN  remaining = <<>> \/ WordCount(remaining) <= 3

\* RAGChain._is_greeting (rag_chain.py:292-313)
IsGreeting(query) ==
    LET query_lower == Strip(Lower(query))
    IN  \/ query_lower \in greetings
        \/ \E greeting \in greetings :
              /\ StartsWith(query_lower, greeting)
              /\ LET remaining == Strip(DropPrefix(query_lower, Len(greeting)))
                 IN  remaining = <<>> \/ WordCount(remaining) <= 2

\* Variant: the farewell phrase must open the query
IsFarewell_PrefixOnly(query) ==
    LET query_lower == Strip(Lower(query))
    IN  \E farewell \in farewells : StartsWith(query_lower, farewell)

\* RAGChain._is_farewell (rag_chain.py:315-324)
IsFarewell(query) ==
    LET query_lower == Strip(Lower(query))
    IN  \E farewell \in farewells : Contains(query_lower, farewell)

\* Variant: a vague word anywhere in the query makes it unclear
IsUnclearQuery_Substring(query) ==
    LET query_lower == Strip(Lower(query))
    IN  \E keyword \in unclear_keywords : Contains(query_lower, keyword)

\* RAGChain._is_unclear_query (rag_chain.py:326-331)
IsUnclearQuery(query) ==
    LET query_lower == Strip(Lower(query))
    IN  WordCount(query_lower) = 1 /\ query_lower \in unclear_keywords

\* RAGChain._is_document_question (rag_chain.py:333-342)
IsDocumentQuestion(query) ==
    LET query_lower == Lower(query)
    IN  \E keyword \in document_keywords : Contains(query_lower, keyword)

(***************************************************************************)
(* The inputs                                                              *)
(***************************************************************************)

\* The longest run of further words written after the leading phrase.
MaxTail == 3

\* " ".join(words)
RECURSIVE Join(_)
Join(words) ==
    IF words = <<>> THEN <<>>
    ELSE IF Len(words) = 1 THEN words[1]
    ELSE words[1] \o <<" ">> \o Join(Tail(words))

\* Words that may follow a phrase: one that triggers no rule, a document
\* keyword and a farewell.
TailWords ==
    { <<"t","h","e","r","e">>,   \* there
      <<"f","i","l","e">>,   \* file
      <<"b","y","e">> }   \* bye

\* Words that hold a phrase as letters without being that phrase, and plain
\* words.
OtherWords ==
    { <<"h","i","s","t","o","r","y">>,   \* history
      <<"s","u","p","p","e","r">>,   \* supper
      <<"p","r","o","f","i","l","e">>,   \* profile
      <<"w","h","a","t">>,   \* what
      <<"d","i","a","b","e","t","e","s">> }   \* diabetes

\* What a query may start with: nothing, any phrase of the four sets, or
\* another word.
Heads ==
    {<<>>} \cup greetings \cup farewells \cup unclear_keywords
           \cup document_keywords \cup OtherWords

\* A word put in front of the head.
FrontWord == <<"w","e","l","l">>   \* well

TailSeqs(n) == UNION {[1..m -> TailWords] : m \in 0..n}

NonEmpty(ws) == SelectSeq(ws, LAMBDA w : w # <<>>)

\* The heads after which the number of further words decides the handling:
\* the greeting phrases, and the other words, two of which open with the
\* letters of one
CountedHeads == greetings \cup OtherWords

\* such a head, then up to MaxTail further words
PlainQueries ==
    { Join(NonEmpty(<<h>> \o t)) : h \in CountedHeads, t \in TailSeqs(MaxTail) }

\* any head with at most one further word: these are also written with a
\* word in front, in capitals, and with blanks around
ShortQueries ==
    { Join(NonEmpty(<<h>> \o t)) : h \in Heads, t \in TailSeqs(1) }

InCapitals(q) == [i \in 1..Len(q) |-> UpperChar(q[i])]

Padded(q) == <<" ">> \o q \o <<" ", " ">>

Queries ==
    PlainQueries
        \cup ShortQueries
        \cup { Join(NonEmpty(<<FrontWord, q>>)) : q \in ShortQueries }
        \cup { InCapitals(q) : q \in ShortQueries }
        \cup { Padded(q) : q \in ShortQueries }

\* answer_question's top_k argument: narrower than the index, and the default
DefaultTopK == 5
TopKs == {1, DefaultTopK}

\* ChatManager() in app.py:48 keeps the default max_history
DefaultMaxHistory == 20

\* Chunks as DocumentProcessor.chunk_text builds them
\* (document_processor.py:105-113, 143-146)
Chunk(text, source, id) ==
    [content |-> text,
     metadata |-> [chunk_id |-> id, source |-> source, type |-> "pdf"]]

\* The chunk lists handed to RAGChain.create_vector_store: none, one chunk,
\* chunks of two documents (chunk_id repeats across documents)
DocLists ==
    { <<>>,
      <<Chunk("alpha", "a.pdf", 0)>>,
      <<Chunk("alpha", "a.pdf", 0), Chunk("beta", "b.pdf", 0)>> }

\* What the language model may answer: any text, the canned refusal included
NoInformation ==
    "I don't have enough information in the documents to answer that question."

Responses == { "generated text", NoInformation }

(***************************************************************************)
(* State                                                                   *)
(***************************************************************************)

VARIABLES
    query,           \* the text of the call or turn under consideration
    vector_store,    \* RAGChain.vector_store
    retriever,       \* RAGChain.retriever
    result,          \* what the last operation returned or raised
    llm_calls,       \* the language-model invocations of the last operation
    search_calls,    \* the retriever invocations of the last operation
    processed_docs,  \* st.session_state.processed_docs
    all_chunks,      \* st.session_state.all_chunks
    messages,        \* ChatManager.messages
    max_history,     \* ChatManager.max_history
    appended,        \* the messages appended since construction or the last
                     \* clear_history, oldest first (a record of the calls)
    vs_vector_store, \* VectorStore.vector_store
    built,           \* the objects on which a create_vector_store call has
                     \* returned (a record of the calls)
    pc               \* where a create_vector_store call and a
                     \* retrieve_context call running at the same time are,
                     \* with their local variables

vars ==
    <<query, vector_store, retriever, result, llm_calls, search_calls,
      processed_docs, all_chunks, messages, max_history, appended,
      vs_vector_store, built, pc>>

\* the index state of the RAGChain and VectorStore objects
chain_vars == <<vector_store, retriever, vs_vector_store, built, pc>>
chat_vars == <<messages, max_history, appended>>
app_vars == <<processed_docs, all_chunks, messages, max_history, appended>>

\* self.vector_store = None / self.retriever = None (rag_chain.py:57-58)
NoVectorStore == [present |-> FALSE, docs |-> <<>>]
NoRetriever == [present |-> FALSE, docs |-> <<>>, k |-> 0]

\* No call is in progress
NoCalls ==
    [build |-> "idle", documents |-> <<>>,
     search |-> "idle", top_k |-> 0, seen |-> {},
     answer |-> "idle", use_documents_only |-> FALSE]

NoResult ==
    [op |-> "none", status |-> "none", answer |-> "", citations |-> <<>>,
     error |-> ""]

Returned(op, answer, citations) ==
    [op |-> op, status |-> "returned", answer |-> answer,
     citations |-> citations, error |-> ""]

Raised(op, error) ==
    [op |-> op, status |-> "raised", answer |-> "", citations |-> <<>>,
     error |-> error]

\* How a build call ended, with the documents it was given
BuildResult(op, documents, o) ==
    [op |-> op, status |-> IF o.ok THEN "returned" ELSE "raised",
     answer |-> "", citations |-> <<>>, error |-> o.error,
     documents |-> documents]

(***************************************************************************)
(* RAGChain: index build and retrieval                                     *)
(***************************************************************************)

\* Document(page_content=doc["content"], metadata=doc.get("metadata", {}))
\* (rag_chain.py:80-86)
ToDocument(doc) == [page_content |-> doc.content, metadata |-> doc.metadata]

\* Variant: of the metadata only the source is passed on
ToResult_SourceOnly(doc) ==
    [content |-> doc.page_content,
     metadata |-> [source |-> doc.metadata.source], score |-> "None"]

\* {"content": ..., "metadata": ..., "score": None} (rag_chain.py:133-140)
ToResult(doc) ==
    [content |-> doc.page_content, metadata |-> doc.metadata, score |-> "None"]

\* FAISS.from_documents and as_retriever with k = 5 (rag_chain.py:89-96)
BuiltStore(documents) ==
    [present |-> TRUE,
     docs |-> [i \in 1..Len(documents) |-> ToDocument(documents[i])]]

BuiltRetriever(store) == [present |-> TRUE, docs |-> store.docs, k |-> 5]

\* The rankings a similarity search over n documents may return for k: at
\* most k positions, no position twice.  Which ones, and in which order, is
\* the retriever's business (rag_chain.py:127-131).
Rankings(n, k) ==
    UNION { { r \in [1..m -> 1..n] : \A i, j \in 1..m : i # j => r[i] # r[j] }
            : m \in 0..(IF k < n THEN k ELSE n) }

VectorStoreNotInitialized ==
    "Vector store not initialized. Process documents first."

\* One retriever invocation, as the call log keeps it: what was asked, the
\* documents the retriever handed back, and the results made of them
SearchCall(q, top_k, ok, retrieved, results) ==
    [query |-> q, k |-> top_k, ok |-> ok, retrieved |-> retrieved,
     results |-> results]

\* RAGChain.retrieve_context (rag_chain.py:103-147): the outcomes of one call,
\* each with the retriever invocations it made
RetrieveContext(store, q, top_k) ==
    IF ~store.present
    THEN { [ok |-> FALSE, results |-> <<>>, error |-> VectorStoreNotInitialized,
            search |-> <<>>] }
    ELSE { LET retrieved_docs == [i \in 1..Len(r) |-> store.docs[r[i]]]
               results == [i \in 1..Len(r) |-> ToResult(retrieved_docs[i])]
           IN  [ok |-> TRUE, results |-> results, error |-> "",
                search |-> <<SearchCall(q, top_k, TRUE, retrieved_docs,
                                        results)>>]
           : r \in Rankings(Len(store.docs), top_k) }
         \cup
         { [ok |-> FALSE, results |-> <<>>, error |-> "retrieval failed",
            search |-> <<SearchCall(q, top_k, FALSE, <<>>, <<>>)>>] }

(***************************************************************************)
(* RAGChain: generation                                                    *)
(***************************************************************************)

\* RAGChain._format_context (rag_chain.py:365-372): one labelled block per
\* retrieved document, numbered from 1, with its source or "Unknown"
FormatContext(context) ==
    [i \in 1..Len(context) |->
        [label |-> i,
         source |-> IF "source" \in DOMAIN context[i].metadata
                    THEN context[i].metadata.source ELSE "Unknown",
         content |-> context[i].content]]

\* RAGChain._build_prompt (rag_chain.py:374-391)
BuildPrompt(q, context_text) ==
    [instructions |-> "answer based only on the provided context",
     context |-> context_text, question |-> q]

\* the prompt of generate_response_without_context (rag_chain.py:266-278)
GeneralKnowledgePrompt(q) ==
    [instructions |-> "answer based on your general knowledge",
     context |-> <<>>, question |-> q]

\* The exceptions the language-model client may raise
LLMErrors == { "rate limit exceeded", "connection timed out" }

\* self.llm.invoke(prompt): a response, or a failure
LLMInvoke(prompt) ==
    { [ok |-> TRUE, answer |-> r, error |-> "",
       llm |-> <<[prompt |-> prompt, ok |-> TRUE, response |-> r,
                  error |-> ""]>>]
      : r \in Responses }
    \cup
    { [ok |-> FALSE, answer |-> "", error |-> e,
       llm |-> <<[prompt |-> prompt, ok |-> FALSE, response |-> "",
                  error |-> e]>>]
      : e \in LLMErrors }

\* RAGChain.generate_response (rag_chain.py:149-182)
GenerateResponse(q, context) == LLMInvoke(BuildPrompt(q, FormatContext(context)))

\* RAGChain.generate_response_without_context (rag_chain.py:252-288)
GenerateResponseWithoutContext(q) == LLMInvoke(GeneralKnowledgePrompt(q))

\* RAGChain._generate_farewell_message (rag_chain.py:344-353)
FarewellMessages ==
    { "Goodbye! Feel free to come back anytime you have questions.",
      "See you later! Take care!",
      "Bye! I'm here whenever you need help.",
      "Have a great day! Come back if you need more information.",
      "Take care! See you soon!" }

\* RAGChain._generate_clarification_message (rag_chain.py:355-363)
ClarificationMessages ==
    { "I'm not sure what you mean. Could you ask me a question about medical topics or your uploaded documents?",
      "Please provide more details. What would you like to know about?",
      "I'd be happy to help! Could you please rephrase your question?",
      "Can you ask me a specific question about medical topics or your documents?" }

(***************************************************************************)
(* RAGChain.answer_question                                                *)
(***************************************************************************)

\* One way a call may end: what it returns or raises, with the language
\* model and retriever invocations it made on the way.
Outcome(status, answer, citations, error, llm, search) ==
    [status |-> status, answer |-> answer, citations |-> citations,
     error |-> error, llm |-> llm, search |-> search]

\* Variant: a failed generation is answered with the refusal
ReturnGenerated_Fallback(g, citations, search) ==
    IF g.ok
    THEN Outcome("returned", g.answer, citations, "", g.llm, search)
    ELSE Outcome("returned", NoInformation, <<>>, "", g.llm, search)

\* `answer = <generation>; return answer, citations`: the generated text with
\* the citations, or the generation's exception passed on
ReturnGenerated(g, citations, search) ==
    IF g.ok
    THEN Outcome("returned", g.answer, citations, "", g.llm, search)
    ELSE Outcome("raised", "", <<>>, g.error, g.llm, search)

\* rag_chain.py:213-215
GreetingBranch(q) ==
    { ReturnGenerated(g, <<>>, <<>>) : g \in GenerateResponseWithoutContext(q) }

\* Variant: the farewell is drawn from the clarification pool
FarewellBranch_WrongPool ==
    { Outcome("returned", m, <<>>, "", <<>>, <<>>) : m \in ClarificationMessages }

\* rag_chain.py:217-219
FarewellBranch ==
    { Outcome("returned", m, <<>>, "", <<>>, <<>>) : m \in FarewellMessages }

\* rag_chain.py:221-223
UnclearBranch ==
    { Outcome("returned", m, <<>>, "", <<>>, <<>>) : m \in ClarificationMessages }

\* rag_chain.py:229-231
NoVectorStoreBranch(q) ==
    { ReturnGenerated(g, <<>>, <<>>) : g \in GenerateResponseWithoutContext(q) }

\* Variant: any query with hits is answered from the hits
RespondByQueryType_ContextWins(q, is_document_question, context, search) ==
    IF context # <<>>
    THEN { ReturnGenerated(g, context, search) : g \in GenerateResponse(q, context) }
    ELSE IF is_document_question
    THEN { Outcome("returned", NoInformation, <<>>, "", <<>>, search) }
    ELSE { ReturnGenerated(g, <<>>, search)
           : g \in GenerateResponseWithoutContext(q) }

\* Variant: a document question without hits falls back to general knowledge
RespondByQueryType_FallsBack(q, is_document_question, context, search) ==
    IF is_document_question /\ context # <<>>
    THEN { ReturnGenerated(g, context, search) : g \in GenerateResponse(q, context) }
    ELSE { ReturnGenerated(g, <<>>, search)
           : g \in GenerateResponseWithoutContext(q) }

\* Variant: the grounded answer is returned with the top hit only
RespondByQueryType_TopHitOnly(q, is_document_question, context, search) ==
    IF is_document_question /\ context # <<>>
    THEN { ReturnGenerated(g, <<context[1]>>, search)
           : g \in GenerateResponse(q, context) }
    ELSE IF is_document_question
    THEN { Outcome("returned", NoInformation, <<>>, "", <<>>, search) }
    ELSE { ReturnGenerated(g, <<>>, search)
           : g \in GenerateResponseWithoutContext(q) }

\* rag_chain.py:237-246: the response by query type, once context is retrieved
RespondByQueryType(q, is_document_question, context, search) ==
    IF is_document_question /\ context # <<>>
    THEN { ReturnGenerated(g, context, search) : g \in GenerateResponse(q, context) }
    ELSE IF is_document_question
    THEN { Outcome("returned", NoInformation, <<>>, "", <<>>, search) }
    ELSE { ReturnGenerated(g, <<>>, search)
           : g \in GenerateResponseWithoutContext(q) }

\* rag_chain.py:233-246: retrieve, then respond
RetrieveAndRespond(q, top_k, is_document_question, store) ==
    UNION { IF r.ok
            THEN RespondByQueryType(q, is_document_question, r.results, r.search)
            ELSE { Outcome("raised", "", <<>>, r.error, <<>>, r.search) }
            : r \in RetrieveContext(store, q, top_k) }

\* Variant: no check of self.vector_store before retrieving
AnswerQuestion_NoStoreCheck(q, top_k, store) ==
    IF IsGreeting(q) THEN GreetingBranch(q)
    ELSE IF IsFarewell(q) THEN FarewellBranch
    ELSE IF IsUnclearQuery(q) THEN UnclearBranch
    ELSE RetrieveAndRespond(q, top_k, IsDocumentQuestion(q), store)

\* Variant: greetings are not singled out
AnswerQuestion_NoGreetingCase(q, top_k, store) ==
    IF IsFarewell(q) THEN FarewellBranch
    ELSE IF IsUnclearQuery(q) THEN UnclearBranch
    ELSE IF ~store.present THEN NoVectorStoreBranch(q)
    ELSE RetrieveAndRespond(q, top_k, IsDocumentQuestion(q), store)

\* Variant: the document keywords are looked for before the farewells
AnswerQuestion_DocumentFirst(q, top_k, store) ==
    IF IsGreeting(q) THEN GreetingBranch(q)
    ELSE IF IsDocumentQuestion(q) /\ store.present
    THEN RetrieveAndRespond(q, top_k, TRUE, store)
    ELSE IF IsFarewell(q) THEN FarewellBranch
    ELSE IF IsUnclearQuery(q) THEN UnclearBranch
    ELSE IF ~store.present THEN NoVectorStoreBranch(q)
    ELSE RetrieveAndRespond(q, top_k, IsDocumentQuestion(q), store)

\* RAGChain.answer_question (rag_chain.py:184-250): every way the call may end
AnswerQuestion(q, top_k, store) ==
    IF IsGreeting(q) THEN GreetingBranch(q)
    ELSE IF IsFarewell(q) THEN FarewellBranch
    ELSE IF IsUnclearQuery(q) THEN UnclearBranch
    ELSE LET is_document_question == IsDocumentQuestion(q)
         IN  IF ~store.present
             THEN NoVectorStoreBranch(q)
             ELSE RetrieveAndRespond(q, top_k, is_document_question, store)

\* Variant: a failed build leaves the object without an index
CreateVectorStore_ResetOnFailure(store, retr, documents) ==
    IF documents = <<>>
    THEN { [ok |-> FALSE, vector_store |-> NoVectorStore,
            retriever |-> NoRetriever, error |-> "list index out of range"] }
    ELSE { [ok |-> TRUE, vector_store |-> BuiltStore(documents),
            retriever |-> BuiltRetriever(BuiltStore(documents)), error |-> ""],
           [ok |-> FALSE, vector_store |-> NoVectorStore,
            retriever |-> NoRetriever, error |-> "embedding failed"] }

\* RAGChain.create_vector_store (rag_chain.py:60-101): FAISS.from_documents
\* raises on an empty list and may fail on any list (the embedding call);
\* the two attributes are assigned only after it succeeded
CreateVectorStore(store, retr, documents) ==
    IF documents = <<>>
    THEN { [ok |-> FALSE, vector_store |-> store, retriever |-> retr,
            error |-> "list index out of range"] }
    ELSE { [ok |-> TRUE, vector_store |-> BuiltStore(documents),
            retriever |-> BuiltRetriever(BuiltStore(documents)), error |-> ""],
           [ok |-> FALSE, vector_store |-> store, retriever |-> retr,
            error |-> "embedding failed"] }

(***************************************************************************)
(* The RAGChain object on its own: builds, then one answer_question call   *)
(* on the query under consideration.  answer_question changes no attribute *)
(* of the object, so one call per behaviour shows every (index, query,     *)
(* outcome) combination there is.                                          *)
(***************************************************************************)

InitChain ==
    /\ query \in Queries
    /\ vector_store = NoVectorStore
    /\ retriever = NoRetriever
    /\ result = NoResult
    /\ llm_calls = <<>>
    /\ search_calls = <<>>
    /\ processed_docs = <<>>
    /\ all_chunks = <<>>
    /\ messages = <<>>
    /\ max_history = DefaultMaxHistory
    /\ appended = <<>>
    /\ vs_vector_store = NoVectorStore
    /\ built = {}
    /\ pc = NoCalls

ChainCreateVectorStore ==
    /\ result.op # "answer_question"
    /\ \E documents \in DocLists :
         \E o \in CreateVectorStore(vector_store, retriever, documents) :
            /\ vector_store' = o.vector_store
            /\ retriever' = o.retriever
            /\ result' = BuildResult("create_vector_store", documents, o)
            /\ built' = IF o.ok THEN built \cup {"RAGChain"} ELSE built
    /\ llm_calls' = <<>>
    /\ search_calls' = <<>>
    /\ UNCHANGED <<query, app_vars, vs_vector_store, pc>>

ChainAnswerQuestion ==
    /\ result.op # "answer_question"
    /\ \E top_k \in TopKs :
         \E o \in AnswerQuestion(query, top_k, vector_store) :
            /\ result' = [op |-> "answer_question", status |-> o.status,
                          answer |-> o.answer, citations |-> o.citations,
                          error |-> o.error]
            /\ llm_calls' = o.llm
            /\ search_calls' = o.search
    /\ UNCHANGED <<query, chain_vars, app_vars>>

NextChain == ChainCreateVectorStore \/ ChainAnswerQuestion

SpecChain == InitChain /\ [][NextChain]_vars

(***************************************************************************)
(* VectorStore (vector_store.py), and the two index-holding objects under  *)
(* any sequence of builds and searches                                     *)
(***************************************************************************)

DocumentsListEmpty == "Documents list cannot be empty"

VectorStoreIsNotInitialized == "Vector store is not initialized."

\* VectorStore.create_vector_store (vector_store.py:43-75)
VectorStoreCreate(store, documents) ==
    IF documents = <<>>
    THEN { [ok |-> FALSE, vector_store |-> store, error |-> DocumentsListEmpty] }
    ELSE { [ok |-> TRUE, vector_store |-> BuiltStore(documents), error |-> ""],
           [ok |-> FALSE, vector_store |-> store, error |-> "embedding failed"] }

\* VectorStore.query (vector_store.py:77-100): the content of each hit
VectorStoreQuery(store, q, top_k) ==
    IF ~store.present
    THEN { [ok |-> FALSE, results |-> <<>>,
            error |-> VectorStoreIsNotInitialized, search |-> <<>>] }
    ELSE { LET retrieved_docs == [i \in 1..Len(r) |-> store.docs[r[i]]]
               results ==
                 [i \in 1..Len(r) |-> [content |-> retrieved_docs[i].page_content]]
           IN  [ok |-> TRUE, results |-> results, error |-> "",
                search |-> <<SearchCall(q, top_k, TRUE, retrieved_docs,
                                        results)>>]
           : r \in Rankings(Len(store.docs), top_k) }
         \cup
         { [ok |-> FALSE, results |-> <<>>, error |-> "retrieval failed",
            search |-> <<SearchCall(q, top_k, FALSE, <<>>, <<>>)>>] }

\* the texts searched for
SearchQueries ==
    { <<"d","i","a","b","e","t","e","s">>,   \* diabetes
      <<"w","h","a","t"," ","f","i","l","e">> }   \* what file

InitIndex ==
    /\ query = <<>>
    /\ vector_store = NoVectorStore
    /\ retriever = NoRetriever
    /\ result = NoResult
    /\ llm_calls = <<>>
    /\ search_calls = <<>>
    /\ processed_docs = <<>>
    /\ all_chunks = <<>>
    /\ messages = <<>>
    /\ max_history = DefaultMaxHistory
    /\ appended = <<>>
    /\ vs_vector_store = NoVectorStore
    /\ built = {}
    /\ pc = NoCalls

ChainRetrieveContext ==
    /\ \E q \in SearchQueries, top_k \in TopKs :
         \E o \in RetrieveContext(vector_store, q, top_k) :
            /\ query' = q
            /\ result' = IF o.ok THEN Returned("retrieve_context", "", o.results)
                         ELSE Raised("retrieve_context", o.error)
            /\ search_calls' = o.search
    /\ llm_calls' = <<>>
    /\ UNCHANGED <<chain_vars, app_vars>>

StoreCreateVectorStore ==
    /\ \E documents \in DocLists :
         \E o \in VectorStoreCreate(vs_vector_store, documents) :
            /\ vs_vector_store' = o.vector_store
            /\ result' =
                  BuildResult("VectorStore.create_vector_store", documents, o)
            /\ built' = IF o.ok THEN built \cup {"VectorStore"} ELSE built
    /\ llm_calls' = <<>>
    /\ search_calls' = <<>>
    /\ UNCHANGED <<query, vector_store, retriever, app_vars, pc>>

StoreQuery ==
    /\ \E q \in SearchQueries, top_k \in TopKs :
         \E o \in VectorStoreQuery(vs_vector_store, q, top_k) :
            /\ query' = q
            /\ result' = IF o.ok THEN Returned("VectorStore.query", "", o.results)
                         ELSE Raised("VectorStore.query", o.error)
            /\ search_calls' = o.search
    /\ llm_calls' = <<>>
    /\ UNCHANGED <<chain_vars, app_vars>>

NextIndex ==
    \/ ChainCreateVectorStore
    \/ ChainRetrieveContext
    \/ StoreCreateVectorStore
    \/ StoreQuery

SpecIndex == InitIndex /\ [][NextIndex]_vars

(***************************************************************************)
(* One create_vector_store call and one retrieve_context call at a time on *)
(* the same RAGChain, their steps interleaved: each step reads or writes   *)
(* the attributes once.                                                    *)
(***************************************************************************)

\* Variant: the search goes through the retriever kept in self.retriever
SearchWith_StoredRetriever(store, retr, q, top_k) ==
    IF ~retr.present
    THEN { [ok |-> FALSE, results |-> <<>>, error |-> "no retriever",
            search |-> <<>>] }
    ELSE { LET retrieved_docs == [i \in 1..Len(r) |-> retr.docs[r[i]]]
               results == [i \in 1..Len(r) |-> ToResult(retrieved_docs[i])]
           IN  [ok |-> TRUE, results |-> results, error |-> "",
                search |-> <<SearchCall(q, retr.k, TRUE, retrieved_docs,
                                        results)>>]
           : r \in Rankings(Len(retr.docs), retr.k) }

\* rag_chain.py:126-140: the search proper, on the object's attributes as
\* they are now; the retriever is made anew from self.vector_store with
\* k = top_k, and self.retriever is not read
SearchWith(store, retr, q, top_k) == RetrieveContext(store, q, top_k)

InitSteps ==
    /\ query = <<>>
    /\ vector_store = NoVectorStore
    /\ retriever = NoRetriever
    /\ result = NoResult
    /\ llm_calls = <<>>
    /\ search_calls = <<>>
    /\ processed_docs = <<>>
    /\ all_chunks = <<>>
    /\ messages = <<>>
    /\ max_history = DefaultMaxHistory
    /\ appended = <<>>
    /\ vs_vector_store = NoVectorStore
    /\ built = {}
    /\ pc = NoCalls

\* rag_chain.py:78-92: the documents are converted, the index is built and
\* assigned to self.vector_store; or the build raises
BuildAssignVectorStore ==
    /\ pc.build = "idle"
    /\ \E documents \in DocLists :
         \E o \in CreateVectorStore(vector_store, retriever, documents) :
            IF o.ok
            THEN /\ vector_store' = o.vector_store
                 /\ pc' = [pc EXCEPT !.build = "as_retriever",
                                     !.documents = documents,
                                     !.seen = IF pc.search = "idle" THEN @
                                              ELSE @ \cup {o.vector_store}]
                 /\ UNCHANGED <<result, built>>
            ELSE /\ result' = BuildResult("create_vector_store", documents, o)
                 /\ UNCHANGED <<vector_store, built, pc>>
    /\ UNCHANGED <<query, retriever, llm_calls, search_calls, app_vars,
                   vs_vector_store>>

\* rag_chain.py:93-96: self.retriever is assigned, and the call returns
BuildAssignRetriever ==
    /\ pc.build = "as_retriever"
    /\ retriever' = BuiltRetriever(vector_store)
    /\ pc' = [pc EXCEPT !.build = "idle"]
    /\ result' = BuildResult("create_vector_store", pc.documents,
                             [ok |-> TRUE, error |-> ""])
    /\ built' = built \cup {"RAGChain"}
    /\ UNCHANGED <<query, vector_store, llm_calls, search_calls, app_vars,
                   vs_vector_store>>

\* rag_chain.py:123-124: the test of self.vector_store
SearchCheckVectorStore ==
    /\ pc.search = "idle"
    /\ \E q \in SearchQueries, top_k \in TopKs :
         /\ query' = q
         /\ IF ~vector_store.present
            THEN /\ result' = Raised("retrieve_context",
                                     VectorStoreNotInitialized)
                 /\ search_calls' = <<>>
                 /\ pc' = [pc EXCEPT !.top_k = top_k, !.seen = {vector_store}]
            ELSE /\ pc' = [pc EXCEPT !.search = "retrieve", !.top_k = top_k,
                                     !.seen = {vector_store}]
                 /\ UNCHANGED <<result, search_calls>>
    /\ UNCHANGED <<vector_store, retriever, llm_calls, app_vars,
                   vs_vector_store, built>>

\* rag_chain.py:126-147: the retrieval, and the call returns or raises
SearchRetrieve ==
    /\ pc.search = "retrieve"
    /\ \E o \in SearchWith(vector_store, retriever, query, pc.top_k) :
         /\ result' = IF o.ok THEN Returned("retrieve_context", "", o.results)
                      ELSE Raised("retrieve_context", o.error)
         /\ search_calls' = o.search
    /\ pc' = [pc EXCEPT !.search = "idle"]
    /\ UNCHANGED <<query, vector_store, retriever, llm_calls, app_vars,
                   vs_vector_store, built>>

NextSteps ==
    \/ BuildAssignVectorStore
    \/ BuildAssignRetriever
    \/ SearchCheckVectorStore
    \/ SearchRetrieve

SpecSteps == InitSteps /\ [][NextSteps]_vars

(***************************************************************************)
(* One create_vector_store call and one answer_question call at a time on  *)
(* the same RAGChain, their steps interleaved in the same way.  A call     *)
(* that starts wipes the record of the previous one.                       *)
(***************************************************************************)

\* the queries answer_question is called with: a general one, a
\* document-targeted one and a greeting
AnswerQueries == SearchQueries \cup { <<"h","e","l","l","o">> }

\* what answer_question hands back or raises, with the argument it was
\* called with
AnswerResult(o, use_documents_only) ==
    [op |-> "answer_question", status |-> o.status, answer |-> o.answer,
     citations |-> o.citations, error |-> o.error,
     use_documents_only |-> use_documents_only]

\* Variant: answer_question does not look at self.vector_store itself
AnswersWithoutRetrieval_NoStoreCheck(q, store) ==
    IsGreeting(q) \/ IsFarewell(q) \/ IsUnclearQuery(q)

\* rag_chain.py:213-231: the cases answer_question settles before any
\* retrieval; self.vector_store is read once, at line 229
AnswersWithoutRetrieval(q, store) ==
    IsGreeting(q) \/ IsFarewell(q) \/ IsUnclearQuery(q) \/ ~store.present

\* rag_chain.py:211-231: answer_question(query, top_k, use_documents_only)
\* up to its test of self.vector_store; use_documents_only is read nowhere
\* in the body
AnswerCheckVectorStore ==
    /\ pc.answer = "idle"
    /\ pc.search = "idle"
    /\ \E q \in AnswerQueries, top_k \in TopKs, use_documents_only \in BOOLEAN :
         /\ query' = q
         /\ IF AnswersWithoutRetrieval(q, vector_store)
            THEN /\ \E o \in AnswerQuestion(q, top_k, vector_store) :
                       /\ result' = AnswerResult(o, use_documents_only)
                       /\ llm_calls' = o.llm
                       /\ search_calls' = o.search
                 /\ UNCHANGED pc
            ELSE /\ pc' = [pc EXCEPT !.answer = "retrieve_context",
                                     !.top_k = top_k,
                                     !.use_documents_only = use_documents_only]
                 /\ result' = NoResult
                 /\ llm_calls' = <<>>
                 /\ search_calls' = <<>>
    /\ UNCHANGED <<vector_store, retriever, app_vars, vs_vector_store, built>>

\* rag_chain.py:234 and 123-124: retrieve_context is entered and tests
\* self.vector_store; its ValueError leaves answer_question through the
\* bare raise of line 250
AnswerRetrieveCheck ==
    /\ pc.answer = "retrieve_context"
    /\ IF ~vector_store.present
       THEN /\ result' =
                  AnswerResult(Outcome("raised", "", <<>>,
                                       VectorStoreNotInitialized, <<>>, <<>>),
                               pc.use_documents_only)
            /\ llm_calls' = <<>>
            /\ search_calls' = <<>>
            /\ pc' = [pc EXCEPT !.answer = "idle", !.top_k = 0,
                                !.use_documents_only = FALSE]
       ELSE /\ pc' = [pc EXCEPT !.answer = "retrieve"]
            /\ UNCHANGED <<result, llm_calls, search_calls>>
    /\ UNCHANGED <<query, vector_store, retriever, app_vars, vs_vector_store,
                   built>>

\* rag_chain.py:126-147 and 237-250: the retrieval, then the response by
\* query type; the call returns or raises
AnswerRespond ==
    /\ pc.answer = "retrieve"
    /\ \E r \in SearchWith(vector_store, retriever, query, pc.top_k) :
         \E o \in (IF r.ok
                   THEN RespondByQueryType(query, IsDocumentQuestion(query),
                                           r.results, r.search)
                   ELSE { Outcome("raised", "", <<>>, r.error, <<>>,
                                  r.search) }) :
            /\ result' = AnswerResult(o, pc.use_documents_only)
            /\ llm_calls' = o.llm
            /\ search_calls' = o.search
    /\ pc' = [pc EXCEPT !.answer = "idle", !.top_k = 0,
                        !.use_documents_only = FALSE]
    /\ UNCHANGED <<query, vector_store, retriever, app_vars, vs_vector_store,
                   built>>

NextAnswer ==
    \/ BuildAssignVectorStore
    \/ BuildAssignRetriever
    \/ AnswerCheckVectorStore
    \/ AnswerRetrieveCheck
    \/ AnswerRespond

SpecAnswer == InitSteps /\ [][NextAnswer]_vars


(***************************************************************************)
(* ChatManager (chat_manager.py)                                           *)
(***************************************************************************)

\* `metadata or {}` (chat_manager.py:56)
EmptyDict == <<>>

\* The attributes ChatMessage.__init__ sets (chat_manager.py:53-56); the
\* timestamp is left out
ChatMessage(role, content, metadata) ==
    [role |-> role, content |-> content, metadata |-> metadata]

\* chat_manager.py:50
ValidRoles == { "user", "assistant" }

\* the ValueError of chat_manager.py:51
RoleMustBe == "Role must be 'user' or 'assistant'"

\* Variant: any role is accepted
NewChatMessage_AnyRole(role, content, metadata) ==
    [ok |-> TRUE, error |-> "", message |-> ChatMessage(role, content, metadata)]

\* ChatMessage(role, content, metadata) (chat_manager.py:33-56): the object,
\* or the ValueError
NewChatMessage(role, content, metadata) ==
    IF role \notin ValidRoles
    THEN [ok |-> FALSE, error |-> RoleMustBe,
          message |-> ChatMessage("", "", EmptyDict)]
    ELSE [ok |-> TRUE, error |-> "",
          message |-> ChatMessage(role, content, metadata)]

\* s[-n:] for n >= 0: Python reads -0 as 0, so s[-0:] is all of s
LastItems(s, n) ==
    IF n = 0 \/ n >= Len(s) THEN s ELSE SubSeq(s, Len(s) - n + 1, Len(s))

\* ChatManager._trim_history (chat_manager.py:266-270)
TrimHistory(msgs, limit) ==
    IF Len(msgs) > limit THEN LastItems(msgs, limit) ELSE msgs

\* ChatManager.add_user_message (chat_manager.py:98-116)
AddUserMessage(msgs, limit, content) ==
    LET message == NewChatMessage("user", content, EmptyDict)
    IN  IF message.ok
        THEN TrimHistory(Append(msgs, message.message), limit)
        ELSE msgs

\* ChatManager.add_assistant_message (chat_manager.py:118-141)
AddAssistantMessage(msgs, limit, content, metadata) ==
    LET message == NewChatMessage("assistant", content, metadata)
    IN  IF message.ok
        THEN TrimHistory(Append(msgs, message.message), limit)
        ELSE msgs

\* ChatManager.get_context_messages (chat_manager.py:152-172)
GetContextMessages(msgs, num_messages) ==
    LET recent == LastItems(msgs, num_messages)
    IN  [i \in 1..Len(recent) |->
            [role |-> recent[i].role, content |-> recent[i].content]]

\* dict.get(key): the value, or None for a missing key
DictGet(dict, key) ==
    IF dict # EmptyDict /\ key \in DOMAIN dict THEN dict[key] ELSE "None"

\* ChatManager.get_sources_from_history (chat_manager.py:219-232); the list
\* is made of a set, so its order is left open
GetSourcesFromHistory(msgs) ==
    { DictGet(msgs[i].metadata, "source") :
        i \in { j \in 1..Len(msgs) :
                   /\ msgs[j].role = "assistant"
                   /\ msgs[j].metadata # EmptyDict
                   /\ DictGet(msgs[j].metadata, "source") \notin {"None", ""} } }

\* ChatManager.get_message_count (chat_manager.py:208-217)
GetMessageCount(msgs) ==
    [user |-> Cardinality({ i \in 1..Len(msgs) : msgs[i].role = "user" }),
     assistant |->
        Cardinality({ i \in 1..Len(msgs) : msgs[i].role = "assistant" })]

\* ChatManager.get_summary (chat_manager.py:234-249), without the
\* conversation id and the duration
GetSummary(msgs) ==
    [message_count |-> Len(msgs),
     user_messages |-> GetMessageCount(msgs).user,
     assistant_messages |-> GetMessageCount(msgs).assistant,
     sources |-> GetSourcesFromHistory(msgs)]

(***************************************************************************)
(* The ChatManager object on its own: constructed with any max_history,    *)
(* then any sequence of add_user_message, add_assistant_message,           *)
(* get_context_messages and clear_history calls, and ChatMessage           *)
(* constructions.                                                          *)
(***************************************************************************)

\* Model bounds: the largest max_history a ChatManager is constructed with,
\* and the appends made between two clears
MaxHistoryArg == 2
MaxAppends == 4

\* the max_history argument of ChatManager(max_history)
MaxHistories == 0..MaxHistoryArg

\* message texts
Contents == { "one", "two" }

\* the num_messages argument of get_context_messages: none, fewer than
\* held, as many, more
NumMessages == 0..MaxAppends

\* the role argument of ChatMessage(role, content)
Roles == { "user", "assistant", "system", "User" }

InitChat ==
    /\ query = <<>>
    /\ vector_store = NoVectorStore
    /\ retriever = NoRetriever
    /\ result = NoResult
    /\ llm_calls = <<>>
    /\ search_calls = <<>>
    /\ processed_docs = <<>>
    /\ all_chunks = <<>>
    /\ messages = <<>>
    /\ max_history \in MaxHistories
    /\ appended = <<>>
    /\ vs_vector_store = NoVectorStore
    /\ built = {}
    /\ pc = NoCalls

ChatAddUserMessage ==
    /\ Len(appended) < MaxAppends
    /\ \E content \in Contents :
         /\ messages' = AddUserMessage(messages, max_history, content)
         /\ appended' = Append(appended, ChatMessage("user", content, EmptyDict))
    /\ result' = Returned("add_user_message", "", <<>>)
    /\ UNCHANGED <<query, chain_vars, llm_calls, search_calls,
                   processed_docs, all_chunks, max_history>>

ChatAddAssistantMessage ==
    /\ Len(appended) < MaxAppends
    /\ \E content \in Contents :
         /\ messages' =
               AddAssistantMessage(messages, max_history, content, EmptyDict)
         /\ appended' =
               Append(appended, ChatMessage("assistant", content, EmptyDict))
    /\ result' = Returned("add_assistant_message", "", <<>>)
    /\ UNCHANGED <<query, chain_vars, llm_calls, search_calls,
                   processed_docs, all_chunks, max_history>>

\* ChatMessage(role, content) constructed by a caller: the object is handed
\* back, or the ValueError is raised; the conversation is not involved, and
\* the content plays no part
ChatNewMessage ==
    /\ \E role \in Roles :
         LET made == NewChatMessage(role, "one", EmptyDict)
         IN  result' = [op |-> "ChatMessage",
                        status |-> IF made.ok THEN "returned" ELSE "raised",
                        answer |-> "", citations |-> <<>>,
                        error |-> made.error, role |-> role,
                        message |-> made.message]
    /\ UNCHANGED <<query, chain_vars, llm_calls, search_calls,
                   processed_docs, all_chunks, chat_vars>>

ChatGetContextMessages ==
    /\ \E num_messages \in NumMessages :
         result' = [op |-> "get_context_messages", status |-> "returned",
                    answer |-> "", citations |-> <<>>, error |-> "",
                    num_messages |-> num_messages,
                    returned |-> GetContextMessages(messages, num_messages)]
    /\ UNCHANGED <<query, chain_vars, llm_calls, search_calls,
                   processed_docs, all_chunks, chat_vars>>

\* ChatManager.clear_history (chat_manager.py:174-182)
ChatClearHistory ==
    /\ messages' = <<>>
    /\ appended' = <<>>
    /\ result' = Returned("clear_history", "", <<>>)
    /\ UNCHANGED <<query, chain_vars, llm_calls, search_calls,
                   processed_docs, all_chunks, max_history>>

NextChat ==
    \/ ChatAddUserMessage
    \/ ChatAddAssistantMessage
    \/ ChatNewMessage
    \/ ChatGetContextMessages
    \/ ChatClearHistory

SpecChat == InitChat /\ [][NextChat]_vars

(***************************************************************************)
(* The front end (app.py)                                                  *)
(***************************************************************************)

\* text.split(): the words of s, in order
SplitWords(s) ==
    LET starts == WordStarts(s)
        WordAt(i) ==
            SubSeq(s, i, SetMax({j \in i..Len(s) :
                                    \A m \in i..j : ~IsSpace(s[m])}))
    IN  [n \in 1..Cardinality(starts) |->
            WordAt(CHOOSE i \in starts :
                      Cardinality({j \in starts : j < i}) = n - 1)]

HarmfulChars == {"<", ">", "{", "}", "[", "]"}

\* utils.sanitize_input (utils.py:95-113)
SanitizeInput(text) ==
    Strip(SelectSeq(Join(SplitWords(text)), LAMBDA c : c \notin HarmfulChars))

\* What the user types into the chat box
Prompts ==
    { <<"b","y","e">>,   \* bye
      <<" ","b","<","y","e"," "," ">>,   \* " b<ye  "
      <<"i","d","k">>,   \* idk
      <<"h","e","l","l","o">>,   \* hello
      <<"w","h","a","t"," "," ","f","i","l","e">>,   \* "what  file"
      <<"d","i","a","b","e","t","e","s">> }   \* diabetes

\* utils.sanitize_input on each of them (app.py:126)
Sanitized == [prompt \in Prompts |-> SanitizeInput(prompt)]

\* The uploaded files with the chunks process_pdf makes of them, when it
\* succeeds: two one-chunk documents and a PDF without pages
FileA == [name |-> "a.pdf", chunks |-> <<Chunk("alpha", "a.pdf", 0)>>]
FileB == [name |-> "b.pdf", chunks |-> <<Chunk("beta", "b.pdf", 0)>>]
FileEmpty == [name |-> "empty.pdf", chunks |-> <<>>]

UploadedFiles == { FileA, FileB, FileEmpty }

\* Model bounds: processed documents and chunks per session, messages per
\* conversation
MaxProcessed == 2
MaxChunks == 2
MaxMessages == 2

\* What is uploaded at once: one file, or two different files
Batches ==
    { <<f>> : f \in UploadedFiles }
        \cup { <<FileA, FileB>>, <<FileA, FileEmpty>>, <<FileEmpty, FileB>> }

\* Variant: the chunks of a file take the place of those held so far
RECURSIVE ProcessFiles_Replace(_, _, _, _)
ProcessFiles_Replace(files, succeeded, chunks, docs) ==
    IF files = <<>> THEN [all_chunks |-> chunks, processed_docs |-> docs]
    ELSE LET file == Head(files)
         IN  IF Head(succeeded)
             THEN ProcessFiles_Replace(Tail(files), Tail(succeeded),
                                       file.chunks,
                                       Append(docs, [filename |-> file.name,
                                                     chunks |-> file.chunks,
                                                     num_chunks |-> Len(file.chunks)]))
             ELSE ProcessFiles_Replace(Tail(files), Tail(succeeded), chunks, docs)

\* app.py:194-213: the loop over the uploaded files; succeeded[i] tells
\* whether process_pdf returned for file i (a failed file is skipped)
RECURSIVE ProcessFiles(_, _, _, _)
ProcessFiles(files, succeeded, chunks, docs) ==
    IF files = <<>> THEN [all_chunks |-> chunks, processed_docs |-> docs]
    ELSE LET file == Head(files)
         IN  IF Head(succeeded)
             THEN ProcessFiles(Tail(files), Tail(succeeded),
                               chunks \o file.chunks,
                               Append(docs, [filename |-> file.name,
                                             chunks |-> file.chunks,
                                             num_chunks |-> Len(file.chunks)]))
             ELSE ProcessFiles(Tail(files), Tail(succeeded), chunks, docs)

\* process_documents (app.py:183-224)
ProcessDocuments ==
    \E uploaded_files \in Batches :
      \E succeeded \in [1..Len(uploaded_files) -> BOOLEAN] :
        LET after == ProcessFiles(uploaded_files, succeeded,
                                  all_chunks, processed_docs)
        IN  /\ Len(after.processed_docs) <= MaxProcessed
            /\ Len(after.all_chunks) <= MaxChunks
            /\ all_chunks' = after.all_chunks
            /\ processed_docs' = after.processed_docs
            /\ IF after.all_chunks # <<>>
               THEN \E o \in CreateVectorStore(vector_store, retriever,
                                               after.all_chunks) :
                       /\ vector_store' = o.vector_store
                       /\ retriever' = o.retriever
                       /\ result' = IF o.ok
                                    THEN Returned("process_documents", "", <<>>)
                                    ELSE Raised("process_documents", o.error)
                       /\ built' = IF o.ok THEN built \cup {"RAGChain"}
                                   ELSE built
               ELSE /\ UNCHANGED <<vector_store, retriever, built>>
                    /\ result' = Returned("process_documents", "", <<>>)
            /\ llm_calls' = <<>>
            /\ search_calls' = <<>>
            /\ UNCHANGED <<query, chat_vars, vs_vector_store, pc>>

\* app.py:138-151: the answer and context of a turn
TurnOutcomes(clean_prompt) ==
    IF processed_docs # <<>>
    THEN AnswerQuestion(clean_prompt, 5, vector_store)
    ELSE { ReturnGenerated(g, <<>>, <<>>)
           : g \in GenerateResponseWithoutContext(clean_prompt) }

\* Variant: a failed turn is answered with the error text
TurnMessages_ErrorReply(msgs, limit, clean_prompt, o) ==
    LET with_user == AddUserMessage(msgs, limit, clean_prompt)
    IN  IF o.status = "returned"
        THEN AddAssistantMessage(with_user, limit, o.answer,
                                 [sources |-> o.citations])
        ELSE AddAssistantMessage(with_user, limit, o.error,
                                 [sources |-> <<>>])

\* app.py:129 and 153-157: the conversation after a turn that ended as o;
\* an exception skips add_assistant_message (app.py:174-180)
TurnMessages(msgs, limit, clean_prompt, o) ==
    LET with_user == AddUserMessage(msgs, limit, clean_prompt)
    IN  IF o.status = "returned"
        THEN AddAssistantMessage(with_user, limit, o.answer,
                                 [sources |-> o.citations])
        ELSE with_user

\* handle_user_query (app.py:119-180)
HandleUserQuery ==
    \E prompt \in Prompts :
         LET clean_prompt == Sanitized[prompt]
         IN  \E o \in TurnOutcomes(clean_prompt) :
               /\ Len(appended) + (IF o.status = "returned" THEN 2 ELSE 1)
                     <= MaxMessages
               /\ query' = clean_prompt
               /\ messages' =
                     TurnMessages(messages, max_history, clean_prompt, o)
               /\ appended' =
                     LET asked == Append(appended,
                                         ChatMessage("user", clean_prompt,
                                                     EmptyDict))
                     IN  IF o.status = "returned"
                         THEN Append(asked,
                                     ChatMessage("assistant", o.answer,
                                                 [sources |-> o.citations]))
                         ELSE asked
               /\ result' = [op |-> "handle_user_query", status |-> o.status,
                             answer |-> o.answer, citations |-> o.citations,
                             error |-> o.error]
               /\ llm_calls' = o.llm
               /\ search_calls' = o.search
               /\ UNCHANGED <<chain_vars, processed_docs, all_chunks,
                              max_history>>

\* initialize_session_state (app.py:42-54)
Init ==
    /\ query = <<>>
    /\ vector_store = NoVectorStore
    /\ retriever = NoRetriever
    /\ result = NoResult
    /\ llm_calls = <<>>
    /\ search_calls = <<>>
    /\ processed_docs = <<>>
    /\ all_chunks = <<>>
    /\ messages = <<>>
    /\ max_history = DefaultMaxHistory
    /\ appended = <<>>
    /\ vs_vector_store = NoVectorStore
    /\ built = {}
    /\ pc = NoCalls

Next == ProcessDocuments \/ HandleUserQuery

Spec == Init /\ [][Next]_vars

(***************************************************************************)
(* The session with the sidebar's conversation statistics                  *)
(***************************************************************************)

\* render_sidebar (app.py:83-93): the summary is asked for once the
\* conversation holds a message
RenderSummary ==
    /\ messages # <<>>
    /\ result' = [op |-> "get_summary", status |-> "returned", answer |-> "",
                  citations |-> <<>>, error |-> "",
                  summary |-> GetSummary(messages)]
    /\ UNCHANGED <<query, chain_vars, llm_calls, search_calls, app_vars>>

NextPage == ProcessDocuments \/ HandleUserQuery \/ RenderSummary

SpecPage == Init /\ [][NextPage]_vars

(***************************************************************************)
(* The classification rules as the specification states them (section 4.1) *)
(* and what a call shows of the branch it took.  The properties below      *)
(* compare the two.                                                        *)
(***************************************************************************)

Normalised(q) == Strip(Lower(q))

\* text is phrase followed by exactly n further words
PhraseThenWords(text, phrase, n) ==
    LET rest == DropPrefix(text, Len(phrase))
    IN  /\ StartsWith(text, phrase)
        /\ rest = <<>> \/ IsSpace(rest[1])
        /\ WordCount(rest) = n

\* the four rules, on the lowercased and trimmed text
GreetingRule(text) ==
    \/ text \in greetings
    \/ \E g \in greetings :
          StartsWith(text, g) /\ WordCount(DropPrefix(text, Len(g))) <= 2

FarewellRule(text) == \E f \in farewells : Contains(text, f)

UnclearRule(text) == WordCount(text) = 1 /\ text \in unclear_keywords

DocumentRule(text) == \E k \in document_keywords : Contains(text, k)

\* first match wins, in this order
SpecIntent(q) ==
    LET text == Normalised(q)
    IN  IF GreetingRule(text) THEN "greeting"
        ELSE IF FarewellRule(text) THEN "farewell"
        ELSE IF UnclearRule(text) THEN "unclear"
        ELSE IF DocumentRule(text) THEN "document_targeted"
        ELSE "general"

Answered == result.op = "answer_question"

Searched == search_calls # <<>>

\* the hits of the call's retrieval, when it made one that returned
Hits == IF Searched /\ search_calls[1].ok THEN search_calls[1].results ELSE <<>>

\* the call made exactly one language-model invocation, on the
\* general-knowledge prompt for the query, and what it returned, if it
\* returned, is that invocation's response with no citations
UngroundedOnce ==
    /\ Len(llm_calls) = 1
    /\ llm_calls[1].prompt.context = <<>>
    /\ llm_calls[1].prompt.instructions = "answer based on your general knowledge"
    /\ llm_calls[1].prompt.question = query
    /\ result.status = "returned" <=> llm_calls[1].ok
    /\ result.status = "returned" => result.answer = llm_calls[1].response
    /\ result.citations = <<>>

\* the call made exactly one language-model invocation, on a prompt holding
\* one block per hit, in order, with the hit's content and source
GroundedOnce(hits) ==
    /\ Len(llm_calls) = 1
    /\ llm_calls[1].prompt.instructions = "answer based only on the provided context"
    /\ llm_calls[1].prompt.question = query
    /\ Len(llm_calls[1].prompt.context) = Len(hits)
    /\ \A i \in 1..Len(hits) :
          /\ llm_calls[1].prompt.context[i].label = i
          /\ llm_calls[1].prompt.context[i].content = hits[i].content
          /\ llm_calls[1].prompt.context[i].source = hits[i].metadata.source
    /\ result.status = "returned" <=> llm_calls[1].ok
    /\ result.status = "returned" => result.answer = llm_calls[1].response

\* a canned message of the pool came back, and nothing was invoked
CannedFrom(pool) ==
    /\ result.status = "returned"
    /\ result.answer \in pool
    /\ result.citations = <<>>
    /\ llm_calls = <<>>
    /\ search_calls = <<>>

(***************************************************************************)
(* Properties of RAGChain.answer_question, checked under SpecChain         *)
(***************************************************************************)

\* C1: a query classified general, with the index present: the answer is
\* the output of the ungrounded generation and the citations are empty,
\* whatever the retrieval returned; the hits appear in no prompt.
C1_GeneralIsUngrounded ==
    (Answered /\ vector_store.present /\ SpecIntent(query) = "general")
        => /\ \A i \in 1..Len(llm_calls) : llm_calls[i].prompt.context = <<>>
           /\ result.citations = <<>>
           /\ result.status = "returned" => UngroundedOnce

\* C1 witness: a general query answered while the retrieval had returned hits
C1_Witness ==
    /\ Answered /\ vector_store.present /\ SpecIntent(query) = "general"
    /\ result.status = "returned"
    /\ Len(Hits) = 2

\* C2: a document-targeted query, index present, retrieval returned no
\* hit: the answer is the literal refusal, the citations are empty and the
\* language model was not called.
C2_RefusalOnNoHits ==
    (/\ Answered /\ vector_store.present
     /\ SpecIntent(query) = "document_targeted"
     /\ Searched /\ search_calls[1].ok /\ search_calls[1].results = <<>>)
        => /\ result.status = "returned"
           /\ result.answer = NoInformation
           /\ result.citations = <<>>
           /\ llm_calls = <<>>

C2_Witness ==
    /\ Answered /\ vector_store.present
    /\ SpecIntent(query) = "document_targeted"
    /\ Searched /\ search_calls[1].ok /\ search_calls[1].results = <<>>
    /\ result.answer = NoInformation

\* C3: a document-targeted query, index present, retrieval returned hits:
\* the answer is the grounded generation's output on exactly those hits and
\* the citations are the hits, same elements, same order; and citations are
\* non-empty in no other case.
C3_GroundedCitesHits ==
    /\ (/\ Answered /\ vector_store.present
        /\ SpecIntent(query) = "document_targeted"
        /\ Hits # <<>>)
          => /\ GroundedOnce(Hits)
             /\ result.status = "returned" => result.citations = Hits
    /\ result.citations # <<>>
          => /\ Answered /\ vector_store.present
             /\ SpecIntent(query) = "document_targeted"
             /\ result.citations = Hits

C3_Witness ==
    /\ Answered /\ SpecIntent(query) = "document_targeted"
    /\ Len(Hits) = 2
    /\ result.status = "returned"
    /\ result.citations = Hits

\* C4: index absent, query classified document-targeted or general: the
\* answer is the ungrounded generation's output, the citations are empty and
\* no retrieval is attempted.
C4_AbsentIndexIsUngrounded ==
    (/\ Answered /\ ~vector_store.present
     /\ SpecIntent(query) \in {"document_targeted", "general"})
        => /\ UngroundedOnce
           /\ ~Searched
           /\ result.error # VectorStoreNotInitialized

C4_Witness ==
    /\ Answered /\ ~vector_store.present
    /\ SpecIntent(query) = "document_targeted"
    /\ result.status = "returned"

\* C5: a query classified greeting: no search call, whether the index is
\* absent or present; exactly one ungrounded generation; empty citations.
C5_GreetingNeverSearches ==
    (Answered /\ SpecIntent(query) = "greeting")
        => ~Searched /\ UngroundedOnce

C5_Witness ==
    /\ Answered /\ SpecIntent(query) = "greeting"
    /\ vector_store.present
    /\ result.status = "returned"

\* C6: a query classified farewell (unclear) is answered with a message of
\* the farewell (clarification) pool, empty citations, no language-model
\* call and no search call, whether the index is absent or present.
C6_CannedAnswers ==
    Answered
        => LET intent == SpecIntent(query)
           IN  /\ intent = "farewell" => CannedFrom(FarewellMessages)
               /\ intent = "unclear" => CannedFrom(ClarificationMessages)

C6_Witness ==
    /\ Answered /\ SpecIntent(query) = "unclear"
    /\ vector_store.present
    /\ result.answer \in ClarificationMessages

\* the call took the document-targeted path
HandledAsDocument ==
    IF ~vector_store.present THEN ~Searched /\ UngroundedOnce
    ELSE /\ Searched
         /\ ~search_calls[1].ok => result.status = "raised" /\ llm_calls = <<>>
         /\ search_calls[1].ok /\ Hits # <<>>
               => /\ GroundedOnce(Hits)
                  /\ result.status = "returned" => result.citations = Hits
         /\ search_calls[1].ok /\ Hits = <<>>
               => /\ result.status = "returned"
                  /\ result.answer = NoInformation
                  /\ result.citations = <<>>
                  /\ llm_calls = <<>>

\* the call took the general path
HandledAsGeneral ==
    IF ~vector_store.present THEN ~Searched /\ UngroundedOnce
    ELSE /\ Searched
         /\ ~search_calls[1].ok => result.status = "raised" /\ llm_calls = <<>>
         /\ search_calls[1].ok => UngroundedOnce

\* C8: classification is total and follows the precedence greeting,
\* farewell, unclear, document_targeted, general, first match winning: every
\* query has an outcome; every call is handled as the first matching rule
\* prescribes; the empty query is handled as general; a query matching the
\* farewell rule that also holds a document keyword is never handled as
\* document-targeted (no retrieval), and is handled as a farewell unless it
\* is a greeting.
C8_FirstMatchWins ==
    /\ result.op = "none"
          => \A k \in TopKs : AnswerQuestion(query, k, vector_store) # {}
    /\ Answered
          => LET text == Normalised(query)
                 intent == SpecIntent(query)
             IN  /\ intent = "greeting" => ~Searched /\ UngroundedOnce
                 /\ intent = "farewell" => CannedFrom(FarewellMessages)
                 /\ intent = "unclear" => CannedFrom(ClarificationMessages)
                 /\ intent = "document_targeted" => HandledAsDocument
                 /\ intent = "general" => HandledAsGeneral
                 /\ query = <<>> => HandledAsGeneral
                 /\ FarewellRule(text) /\ DocumentRule(text)
                       => /\ ~Searched
                          /\ ~GreetingRule(text) => CannedFrom(FarewellMessages)

\* C8 witness: a farewell holding a document keyword, asked with the index
\* present, got a farewell message
C8_Witness ==
    /\ Answered /\ vector_store.present
    /\ FarewellRule(Normalised(query)) /\ DocumentRule(Normalised(query))
    /\ ~GreetingRule(Normalised(query))
    /\ CannedFrom(FarewellMessages)

\* C9 as stated: every query holding a farewell phrase as a substring is
\* handled as a farewell, whatever surrounds the phrase.
C9_FarewellWhateverSurrounds ==
    (Answered /\ FarewellRule(Normalised(query)))
        => CannedFrom(FarewellMessages)

\* C9 as amended: every query holding a farewell phrase as a substring is
\* handled as a farewell, whatever surrounds the phrase, unless the query
\* matches the greeting rule, which is tried first.
C9_FarewellUnlessGreeting ==
    (/\ Answered
     /\ FarewellRule(Normalised(query))
     /\ ~GreetingRule(Normalised(query)))
        => CannedFrom(FarewellMessages)

\* C9 witness: a farewell phrase with text before and after it
C9_Witness ==
    /\ Answered /\ CannedFrom(FarewellMessages)
    /\ LET text == Normalised(query)
       IN  \E f \in farewells :
              /\ Contains(text, f)
              /\ ~StartsWith(text, f)
              /\ SubSeq(text, Len(text) - Len(f) + 1, Len(text)) # f

\* the number of words after phrase in text, or -1 when text is not phrase
\* followed by words
TrailingWords(text, phrase) ==
    LET rest == DropPrefix(text, Len(phrase))
    IN  IF StartsWith(text, phrase) /\ (rest = <<>> \/ IsSpace(rest[1]))
        THEN WordCount(rest) ELSE -1

\* C10: a greeting phrase alone or followed by at most two further words is
\* handled as a greeting; followed by three or more words that trigger no
\* other rule it is not: it is handled as a general query, which shows as a
\* retrieval when the index is present.
C10_GreetingUpToTwoWords ==
    Answered
        => LET text == Normalised(query)
           IN  \A g \in greetings :
                  /\ TrailingWords(text, g) \in 0..2
                        => ~Searched /\ UngroundedOnce
                  /\ (/\ TrailingWords(text, g) >= 3
                      /\ ~FarewellRule(text) /\ ~UnclearRule(text)
                      /\ ~DocumentRule(text))
                        => /\ HandledAsGeneral
                           /\ vector_store.present => Searched

\* C10 witness: a greeting phrase followed by three unrelated words was
\* answered after a retrieval
C10_Witness ==
    /\ Answered /\ vector_store.present /\ Searched
    /\ result.status = "returned"
    /\ LET text == Normalised(query)
       IN  /\ \E g \in greetings : TrailingWords(text, g) = 3
           /\ ~FarewellRule(text) /\ ~DocumentRule(text)

\* C15: when the language-model call fails during answer_question, on the
\* grounded or the ungrounded path, answer_question fails with that same
\* error and returns no answer; the language model was invoked exactly once
\* in that call (no retry), and it is invoked at most once in any call.
C15_GenerationFailurePropagates ==
    Answered
        => /\ Len(llm_calls) <= 1
           /\ \A i \in 1..Len(llm_calls) :
                 ~llm_calls[i].ok
                    => /\ Len(llm_calls) = 1
                       /\ result.status = "raised"
                       /\ result.error = llm_calls[i].error
                       /\ result.answer = "" /\ result.citations = <<>>

\* C15 witness: the generation on retrieved context failed
C15_Witness ==
    /\ Answered /\ result.status = "raised"
    /\ Len(llm_calls) = 1 /\ ~llm_calls[1].ok
    /\ llm_calls[1].prompt.context # <<>>
    /\ result.error = "connection timed out"

\* the call was handled as a greeting: with the index present, the greeting
\* branch is the only one that generates without having searched
HandledAsGreeting ==
    Answered /\ vector_store.present /\ ~Searched /\ Len(llm_calls) = 1

\* C11: a query is handled as a greeting only if it begins with a complete
\* greeting phrase as whole words (the phrase is followed by the end of the
\* text or by whitespace); a query whose first word only has a greeting
\* phrase as its leading letters is never handled as a greeting.
C11_GreetingOnlyOnWholeWords ==
    HandledAsGreeting
        => \E g \in greetings : TrailingWords(Normalised(query), g) >= 0

\* C12: each vague word on its own (nothing, nope, nah, whatever, dunno,
\* idk) is handled as unclear, and no input of several words holding one of
\* those words is handled as unclear.
C12_VagueWordAlone ==
    Answered
        => LET text == Normalised(query)
           IN  /\ text \in unclear_keywords => CannedFrom(ClarificationMessages)
               /\ (/\ WordCount(text) >= 2
                   /\ \E w \in unclear_keywords : Contains(text, w))
                     => result.answer \notin ClarificationMessages

\* C12 witness: a vague word after another word was answered by a
\* generation after a retrieval
C12_Witness ==
    /\ Answered /\ Searched /\ result.status = "returned"
    /\ Len(llm_calls) = 1
    /\ LET text == Normalised(query)
       IN  /\ WordCount(text) = 2
           /\ \E w \in unclear_keywords :
                 Contains(text, w) /\ ~StartsWith(text, w)

(***************************************************************************)
(* Properties of the index-holding objects, checked under SpecIndex        *)
(***************************************************************************)

\* the last call was a search that failed with the not-built error
NotBuiltError ==
    /\ result.status = "raised"
    /\ \/ result.op = "retrieve_context"
             /\ result.error = VectorStoreNotInitialized
       \/ result.op = "VectorStore.query"
             /\ result.error = VectorStoreIsNotInitialized

\* C16: a search (retrieve_context, VectorStore.query) fails with the
\* not-built error if and only if no build has succeeded on that object: it
\* fails before any successful build, and never after one, whatever builds
\* (successful or failed) and searches follow.
C16_NotBuiltIffNeverBuilt ==
    /\ result.op = "retrieve_context"
          => (NotBuiltError <=> "RAGChain" \notin built)
    /\ result.op = "VectorStore.query"
          => (NotBuiltError <=> "VectorStore" \notin built)

\* C16 witness: a search on the one object returned hits while the other
\* object, never built, still has no index
C16_Witness ==
    /\ result.op = "retrieve_context" /\ result.status = "returned"
    /\ Len(result.citations) = 2
    /\ built = {"RAGChain"}

\* C20: round trip through the index: every result retrieve_context
\* returns carries the content and the complete metadata (source and
\* chunk_id included) of the chunk it was built from, unmodified, in the
\* order the index returned the documents, and its score is absent (None),
\* not zero.
C20_RoundTrip ==
    (result.op = "retrieve_context" /\ result.status = "returned")
        => LET retrieved == search_calls[1].retrieved
           IN  /\ Len(result.citations) = Len(retrieved)
               /\ \A i \in 1..Len(retrieved) :
                     LET hit == result.citations[i]
                     IN  /\ hit.content = retrieved[i].page_content
                         /\ hit.metadata = retrieved[i].metadata
                         /\ DOMAIN hit = {"content", "metadata", "score"}
                         /\ hit.score = "None"
                         /\ {"source", "chunk_id"} \subseteq DOMAIN hit.metadata
                         /\ \E documents \in DocLists :
                               \E j \in 1..Len(documents) :
                                  /\ hit.content = documents[j].content
                                  /\ hit.metadata = documents[j].metadata

\* C20 witness: two hits came back, the second chunk of the corpus ranked
\* first
C20_Witness ==
    /\ result.op = "retrieve_context" /\ result.status = "returned"
    /\ Len(result.citations) = 2
    /\ result.citations[1] =
          [content |-> "beta",
           metadata |-> [chunk_id |-> 0, source |-> "b.pdf", type |-> "pdf"],
           score |-> "None"]
    /\ result.citations[2].metadata.source = "a.pdf"

\* the last call was a build
BuildCalls == {"create_vector_store", "VectorStore.create_vector_store"}

\* the error for a build given no chunks
EmptyCorpusError == DocumentsListEmpty

\* C17: a build with an empty chunk sequence always fails with the
\* empty-corpus error and leaves the index state exactly as it was (absent
\* stays absent, a built index stays in place), for both builders,
\* RAGChain.create_vector_store and VectorStore.create_vector_store.
C17_EmptyBuildRejected ==
    [][ (result'.op \in BuildCalls /\ result'.documents = <<>>)
          => /\ result'.status = "raised"
             /\ result'.error = EmptyCorpusError
             /\ UNCHANGED <<vector_store, retriever, vs_vector_store>> ]_vars

\* the results are a ranking of at most k distinct documents of the index
ServedBy(index, results, k) ==
    /\ index.present
    /\ Len(results) <= k
    /\ \E r \in Rankings(Len(index.docs), k) :
          results = [i \in 1..Len(r) |-> ToResult(index.docs[r[i]])]

\* C18: a build replaces the prior index atomically as the caller sees it:
\* however the steps of create_vector_store and retrieve_context interleave,
\* every search that returns is served entirely by one complete index, the
\* one in place when the search began or one that a build put in place
\* during the search, with the breadth the search asked for (never part of
\* an index, never the new index through the previous retriever); and a
\* build that fails leaves the previous index in use.  Checked under
\* SpecSteps.
C18_SearchSeesWholeIndex ==
    [][ /\ (pc.search = "retrieve" /\ pc'.search = "idle"
            /\ result'.status = "returned")
             => \E index \in pc'.seen :
                   ServedBy(index, result'.citations, pc'.top_k)
        /\ (pc.build = "idle" /\ pc'.build = "idle")
             => vector_store' = vector_store /\ retriever' = retriever
      ]_vars

\* C18 witness: a search that began on one index returned two hits of the
\* index a build put in place meanwhile, before that build had assigned the
\* retriever
C18_Witness ==
    /\ result.op = "retrieve_context" /\ result.status = "returned"
    /\ pc.search = "idle" /\ pc.build = "as_retriever"
    /\ Cardinality(pc.seen) = 2
    /\ retriever.present /\ retriever.docs # vector_store.docs
    /\ Len(result.citations) = 2
    /\ ServedBy(vector_store, result.citations, pc.top_k)

(***************************************************************************)
(* Properties of answer_question calls interleaved with builds, checked    *)
(* under SpecAnswer                                                        *)
(***************************************************************************)

\* the answer of the call is the output of the general-knowledge generation
FromGeneralKnowledge ==
    /\ result.status = "returned"
    /\ Len(llm_calls) = 1
    /\ llm_calls[1].prompt.instructions = "answer based on your general knowledge"
    /\ result.answer = llm_calls[1].response

\* C22: called with use_documents_only = True, answer_question only answers
\* from the documents: whatever the query and the index, it returns no answer
\* made by the general-knowledge generation.
C22_DocumentsOnly ==
    (result.op = "answer_question" /\ result.use_documents_only)
        => ~FromGeneralKnowledge

\* C23: across any interleaving of create_vector_store calls, successful or
\* failing, and answer_question calls, answer_question never fails with the
\* "Vector store not initialized" error: it retrieves only with the index
\* present, and the index never goes from present back to absent.
C23_AnswerNeverNotInitialized ==
    [][ /\ ~(/\ result'.op = "answer_question"
              /\ result'.error = VectorStoreNotInitialized)
        /\ pc'.answer = "retrieve" => vector_store'.present
        /\ vector_store.present => vector_store'.present
      ]_vars

\* C23 witness: an answer_question call retrieved and returned while a build
\* that followed a successful one was under way
C23_Witness ==
    /\ result.op = "answer_question" /\ result.status = "returned"
    /\ search_calls # <<>>
    /\ "RAGChain" \in built
    /\ pc.build = "as_retriever"

(***************************************************************************)
(* Properties of ChatManager, checked under SpecChat                       *)
(***************************************************************************)

\* the last n elements of s, the whole of s when it has fewer
MostRecent(s, n) ==
    IF n >= Len(s) THEN s ELSE SubSeq(s, Len(s) - n + 1, Len(s))

\* C13: for every non-negative max_history and every sequence of
\* add_user_message, add_assistant_message and clear_history calls, the
\* conversation never holds more than max_history messages, and it holds
\* exactly the min(n, max_history) most recent of the n messages appended
\* since construction or the last clear, in their order.
C13_RetentionBound ==
    /\ Len(messages) <= max_history
    /\ messages = MostRecent(appended, max_history)

\* C21: every message held in the conversation has role user or assistant:
\* constructing a ChatMessage with any other role fails at once with the
\* validation error, hands back no message and leaves the conversation as
\* it was; add_user_message adds a user message and add_assistant_message an
\* assistant message.
C21_RolesAreUserOrAssistant ==
    [][ /\ \A i \in 1..Len(messages') :
              messages'[i].role \in {"user", "assistant"}
        /\ result'.op = "ChatMessage"
              => /\ messages' = messages
                 /\ IF result'.role \in {"user", "assistant"}
                    THEN /\ result'.status = "returned"
                         /\ result'.message.role = result'.role
                    ELSE /\ result'.status = "raised"
                         /\ result'.error # ""
        /\ result'.op = "add_user_message"
              => messages' # <<>> /\ messages'[Len(messages')].role = "user"
        /\ result'.op = "add_assistant_message"
              => /\ messages' # <<>>
                 /\ messages'[Len(messages')].role = "assistant"
      ]_vars

\* C21 witness: a ChatMessage with role "system" was refused while the
\* conversation held messages of both roles
C21_Witness ==
    /\ result.op = "ChatMessage" /\ result.role = "system"
    /\ result.status = "raised"
    /\ \E i, j \in 1..Len(messages) :
          messages[i].role = "user" /\ messages[j].role = "assistant"

\* C24: for every num_messages >= 0, get_context_messages(num_messages)
\* returns exactly the min(num_messages, held) most recent messages, in
\* order, each reduced to its role and content, and never more than
\* num_messages entries.
C24_ContextIsMostRecent ==
    result.op = "get_context_messages"
        => LET recent == MostRecent(messages, result.num_messages)
           IN  /\ Len(result.returned) <= result.num_messages
               /\ result.returned =
                     [i \in 1..Len(recent) |->
                         [role |-> recent[i].role,
                          content |-> recent[i].content]]

(***************************************************************************)
(* Properties of the front end, checked under Spec                         *)
(***************************************************************************)

\* C7: every turn of handle_user_query goes through answer_question, so in
\* every session state, also before any document is processed, a farewell
\* or unclear prompt gets a canned message and no language-model call.
C7_TurnsShortCircuit ==
    result.op = "handle_user_query"
        => LET intent == SpecIntent(query)
           IN  /\ intent = "farewell" => CannedFrom(FarewellMessages)
               /\ intent = "unclear" => CannedFrom(ClarificationMessages)

\* the messages a turn on clean_prompt adds to the conversation: the user
\* message, and the assistant message when the turn returned
TurnAdds(clean_prompt, turn) ==
    LET asked == ChatMessage("user", clean_prompt, EmptyDict)
        replied == ChatMessage("assistant", turn.answer,
                               [sources |-> turn.citations])
    IN  IF turn.status = "returned" THEN <<asked, replied>> ELSE <<asked>>

\* C14: in every turn of handle_user_query the user message is appended
\* whatever becomes of the turn; when the turn fails (retrieval or
\* generation error) the user message stays, no assistant message is
\* appended and every message retained before is unchanged; the assistant
\* message, with metadata sources equal to the returned citations, is
\* appended only when the turn succeeds.
C14_FailedTurnKeepsUserMessage ==
    [][ result'.op = "handle_user_query"
          => /\ result'.status \in {"returned", "raised"}
             /\ messages' = MostRecent(messages \o TurnAdds(query', result'),
                                       max_history) ]_vars

\* C14 witness: a turn failed after an earlier one; both user messages are
\* retained and there is no assistant message
C14_Witness ==
    /\ result.op = "handle_user_query" /\ result.status = "raised"
    /\ Len(messages) = 2
    /\ messages[1].role = "user" /\ messages[2].role = "user"
    /\ messages[2].content = query

\* s is the beginning of t
IsPrefix(s, t) == Len(s) <= Len(t) /\ SubSeq(t, 1, Len(s)) = s

\* the chunks of the processed files, file after file
RECURSIVE ChunksOf(_)
ChunksOf(docs) ==
    IF docs = <<>> THEN <<>> ELSE Head(docs).chunks \o ChunksOf(Tail(docs))

\* C19: the chunk repository only grows: whatever process_documents calls
\* are made, all_chunks is the in-order concatenation of the chunks of
\* every successfully processed file (a later batch replaces or removes
\* nothing, a file that failed contributes nothing); every rebuild is given
\* the whole repository, so right after a successful rebuild the index
\* holds exactly all chunks uploaded so far, and a failed rebuild leaves
\* the index as it was.
C19_RepositoryIsCumulative ==
    [][ result'.op = "process_documents"
          => /\ IsPrefix(all_chunks, all_chunks')
             /\ IsPrefix(processed_docs, processed_docs')
             /\ all_chunks' = ChunksOf(processed_docs')
             /\ (result'.status = "returned" /\ all_chunks' # <<>>)
                   => /\ vector_store'.present
                      /\ vector_store'.docs =
                            [i \in 1..Len(all_chunks') |->
                                ToDocument(all_chunks'[i])]
             /\ (result'.status = "raised" \/ all_chunks' = <<>>)
                   => vector_store' = vector_store
      ]_vars

\* C19 witness: two documents with chunks processed; the index was rebuilt
\* and holds the chunks of both, in order
C19_Witness ==
    /\ result.op = "process_documents" /\ result.status = "returned"
    /\ Len(processed_docs) = 2 /\ Len(all_chunks) = 2
    /\ all_chunks[1].metadata.source # all_chunks[2].metadata.source
    /\ vector_store.present /\ Len(vector_store.docs) = 2
    /\ vector_store.docs[2].page_content = all_chunks[2].content

(***************************************************************************)
(* Properties of the conversation statistics, checked under SpecPage       *)
(***************************************************************************)

\* the source documents of the citations the held assistant messages carry
CitedSources(msgs) ==
    UNION { { msgs[i].metadata.sources[j].metadata.source
              : j \in 1..Len(msgs[i].metadata.sources) }
            : i \in { k \in 1..Len(msgs) : msgs[k].role = "assistant" } }

\* C25: the sources of get_summary (get_sources_from_history) are the
\* source documents cited by the held assistant messages: the source of
\* every citation of every assistant message that handle_user_query
\* recorded is among them.
C25_SourcesOfHistory ==
    result.op = "get_summary"
        => CitedSources(messages) \subseteq result.summary.sources

====
